---- MODULE Spec2Model ----
(***************************************************************************)
(* A model of examples/plotting_with_geoplot.py: a straight-line script    *)
(* that loads three datasets and makes a sequence of geoplot calls.  Each  *)
(* statement of the module body is one action; the calls a statement makes *)
(* are recorded, in Python's evaluation order, in the log `calls`.  Every  *)
(* external call may return or raise.                                      *)
(***************************************************************************)
EXTENDS Integers, Sequences, FiniteSets

VARIABLES
    pc,          \* index into Script of the statement to execute next
    status,      \* "running", "done" (fell off the end) or "aborted"
    imported,    \* the module names bound by the import statements
    world,       \* the name `world`      (line 20)
    boroughs,    \* the name `boroughs`   (line 21)
    collisions,  \* the name `collisions` (line 22)
    africa,      \* the name `africa`     (line 54)
    ax,          \* the name `ax`: index into surfaces, 0 while unbound
    surfaces,    \* the surfaces created so far, in creation order
    calls,       \* the external calls started so far, in order
    raised,      \* the error an external call raised, if any
    uncaught,    \* the error the interpreter terminates with, if any
    io,          \* the file operations performed so far
    nextId       \* identity of the next object to be created

vars == <<pc, status, imported, world, boroughs, collisions, africa, ax,
          surfaces, calls, raised, uncaught, io, nextId>>

-----------------------------------------------------------------------------
(* Bounds of the model.                                                    *)

MaxRows == 2        \* most records in World, and most boroughs
MaxExtra == 1       \* how far Collisions may exceed the head() cut

(* Program constants.                                                      *)

HeadRows == 1000    \* collisions.head(1000)
SimplifyTol == 1    \* boroughs.simplify(0.001), in thousandths
DefaultK == 5       \* choropleth called without k: "five buckets"

-----------------------------------------------------------------------------
(* The inputs: what the bundled files may hold.                            *)

Continents == {"Africa", "Asia"}
GdpValues == {0, 3}
PopValues == {0, 6}
Errors == {"OSError", "ValueError"}

SeqsUpTo(S, n) == UNION {[1..m -> S] : m \in 0..n}

WorldRecord == [continent : Continents, gdp_md_est : GdpValues, pop_est : PopValues]
WorldRows == SeqsUpTo(WorldRecord, MaxRows)

\* borough i has geometry i, not yet simplified (tol = 0)
BoroughRows == {[i \in 1..n |-> [geom |-> i, tol |-> 0]] : n \in 0..MaxRows}

\* Collisions is held by its row count: row i is the i-th point event
CollisionSizes == {0, 1, HeadRows} \cup {HeadRows + d : d \in 1..MaxExtra}

Unbound == [id |-> 0]
NoError == [kind |-> "none", at |-> "none"]
IsBound(v) == v.id # 0

-----------------------------------------------------------------------------
(* The module body: its statements in source order, and the external calls *)
(* each statement makes, in evaluation order.                              *)

ScriptPlotFirst ==
    << "import_gpd", "import_gplt", "load_world", "polyplot_world",
       "load_boroughs", "load_collisions",
       "import_gcrs", "polyplot_ortho", "set_outline", "choropleth",
       "query_africa", "cartogram", "overlay_africa",
       "kdeplot", "overlay_kde", "voronoi", "overlay_voronoi" >>

Script ==
    << "import_gpd", "import_gplt",
       "load_world", "load_boroughs", "load_collisions",
       "polyplot_world",
       "import_gcrs", "polyplot_ortho", "set_outline",
       "choropleth",
       "query_africa", "cartogram", "overlay_africa",
       "kdeplot", "overlay_kde",
       "voronoi", "overlay_voronoi" >>

SubCalls(stmt) ==
    CASE stmt = "import_gpd"       -> << "L17.import_geopandas" >>
      [] stmt = "import_gplt"      -> << "L18.import_geoplot" >>
      [] stmt = "load_world"       -> << "L20.get_path", "L20.read_file" >>
      [] stmt = "load_boroughs"    -> << "L21.get_path", "L21.read_file" >>
      [] stmt = "load_collisions"  -> << "L22.get_path", "L22.read_file" >>
      [] stmt = "polyplot_world"   -> << "L29.polyplot" >>
      [] stmt = "import_gcrs"      -> << "L36.import_geoplot_crs" >>
      [] stmt = "polyplot_ortho"   -> << "L37.Orthographic", "L37.polyplot" >>
      [] stmt = "set_outline"      -> << "L38.set_visible" >>
      [] stmt = "choropleth"       -> << "L46.getitem_gdp_md_est", "L46.getitem_pop_est",
                                         "L46.truediv", "L45.choropleth" >>
      [] stmt = "query_africa"     -> << "L54.query" >>
      [] stmt = "cartogram"        -> << "L55.cartogram" >>
      [] stmt = "overlay_africa"   -> << "L59.polyplot" >>
      [] stmt = "kdeplot"          -> << "L66.geometry", "L68.AlbersEqualArea",
                                         "L65.kdeplot" >>
      [] stmt = "overlay_kde"      -> << "L69.polyplot" >>
      [] stmt = "voronoi"          -> << "L77.head", "L77.AlbersEqualArea",
                                         "L78.simplify", "L76.voronoi" >>
      [] stmt = "overlay_voronoi"  -> << "L83.polyplot" >>

RECURSIVE CallsOf(_)
CallsOf(stmts) ==
    IF stmts = << >> THEN << >>
    ELSE SubCalls(Head(stmts)) \o CallsOf(Tail(stmts))

AllCalls == CallsOf(Script)

-----------------------------------------------------------------------------
(* Control flow.  The body has no loop, branch or handler: a statement     *)
(* that returns is followed by the next one, and an error ends the run.    *)

AdvanceSkip(p) == p + 2

Advance(p) == p + 1

At(stmt) ==
    /\ status = "running"
    /\ pc \in 1..Len(Script)
    /\ Script[pc] = stmt

\* every call of the statement returned
Returns(stmt) ==
    /\ calls' = calls \o SubCalls(stmt)
    /\ pc' = Advance(pc)
    /\ status' = IF Advance(pc) > Len(Script) THEN "done" ELSE "running"
    /\ UNCHANGED <<raised, uncaught>>

\* a handler that swallowed the error and went on with the next statement
PropagateSwallowed(stmt, k, e) ==
    /\ calls' = calls \o SubSeq(SubCalls(stmt), 1, k)
    /\ raised' = [kind |-> e, at |-> SubCalls(stmt)[k]]
    /\ uncaught' = uncaught
    /\ status' = "running"
    /\ pc' = Advance(pc)

\* the k-th call of the statement raised e: nothing catches it
Propagate(stmt, k, e) ==
    /\ calls' = calls \o SubSeq(SubCalls(stmt), 1, k)
    /\ raised' = [kind |-> e, at |-> SubCalls(stmt)[k]]
    /\ uncaught' = raised'
    /\ status' = "aborted"
    /\ pc' = pc

Raises(stmt) ==
    \E k \in 1..Len(SubCalls(stmt)), e \in Errors : Propagate(stmt, k, e)

-----------------------------------------------------------------------------
Init ==
    /\ pc = 1
    /\ status = "running"
    /\ imported = {}
    /\ world = Unbound
    /\ boroughs = Unbound
    /\ collisions = Unbound
    /\ africa = Unbound
    /\ ax = 0
    /\ surfaces = << >>
    /\ calls = << >>
    /\ raised = NoError
    /\ uncaught = NoError
    /\ io = << >>
    /\ nextId = 1

-----------------------------------------------------------------------------
(* Lines 17, 18, 36: the imports.                                          *)

\* the effect of one import statement: the name is bound, or the import raises
Import(stmt, name) ==
    /\ \/ /\ imported' = imported \cup {name}
          /\ Returns(stmt)
       \/ /\ Raises(stmt)
          /\ UNCHANGED imported
    /\ UNCHANGED <<world, boroughs, collisions, africa, ax, surfaces, io, nextId>>

ImportGpd ==
    /\ At("import_gpd")
    /\ Import("import_gpd", "gpd")

ImportGplt ==
    /\ At("import_gplt")
    /\ Import("import_gplt", "gplt")

ImportGcrs ==
    /\ At("import_gcrs")
    /\ Import("import_gcrs", "gcrs")

-----------------------------------------------------------------------------
(* Lines 20-22: the three loads.  read_file opens the bundled file for     *)
(* reading and returns a new dataframe.                                    *)

ReadOp(path) == [op |-> "read", path |-> path]

LoadWorld ==
    /\ At("load_world")
    /\ \/ /\ \E rows \in WorldRows : world' = [id |-> nextId, rows |-> rows]
          /\ nextId' = nextId + 1
          /\ io' = Append(io, ReadOp("naturalearth_lowres"))
          /\ Returns("load_world")
       \/ /\ Raises("load_world")
          /\ UNCHANGED <<world, nextId, io>>
    /\ UNCHANGED <<imported, boroughs, collisions, africa, ax, surfaces>>

LoadBoroughs ==
    /\ At("load_boroughs")
    /\ \/ /\ \E rows \in BoroughRows : boroughs' = [id |-> nextId, rows |-> rows]
          /\ nextId' = nextId + 1
          /\ io' = Append(io, ReadOp("nyc_boroughs"))
          /\ Returns("load_boroughs")
       \/ /\ Raises("load_boroughs")
          /\ UNCHANGED <<boroughs, nextId, io>>
    /\ UNCHANGED <<imported, world, collisions, africa, ax, surfaces>>

LoadCollisions ==
    /\ At("load_collisions")
    /\ \/ /\ \E n \in CollisionSizes : collisions' = [id |-> nextId, nrows |-> n]
          /\ nextId' = nextId + 1
          /\ io' = Append(io, ReadOp("nyc_injurious_collisions"))
          /\ Returns("load_collisions")
       \/ /\ Raises("load_collisions")
          /\ UNCHANGED <<collisions, nextId, io>>
    /\ UNCHANGED <<imported, world, boroughs, africa, ax, surfaces>>

-----------------------------------------------------------------------------
(* The plotting contract of geoplot as the script uses it: a call without  *)
(* ax creates a surface in the projection it is given and returns it; a    *)
(* call with ax=ax draws onto that surface and returns it.                 *)

Layer(call, fn, data, projection, axArg, args) ==
    [call |-> call, fn |-> fn, data |-> data, projection |-> projection,
     axArg |-> axArg, args |-> args]

NewSurface(layer) ==
    [projection |-> layer.projection, outline |-> FALSE, layers |-> <<layer>>]

Plot(s, layer) ==
    IF layer.axArg = 0
    THEN Append(s, NewSurface(layer))
    ELSE [s EXCEPT ![layer.axArg].layers = Append(@, layer)]

Returned(s, layer) == IF layer.axArg = 0 THEN Len(s) + 1 ELSE layer.axArg

\* the classification bucket count of a layer; 0 stands for k=None
Buckets(layer) == IF "k" \in DOMAIN layer.args THEN layer.args.k ELSE DefaultK

-----------------------------------------------------------------------------
(* Line 29: gplt.polyplot(world, figsize=(8, 4)); the result is dropped.   *)

PolyplotWorldLayer ==
    Layer("L29.polyplot", "polyplot", world, "none", 0, [figsize |-> <<8, 4>>])

PolyplotWorldSaved ==
    /\ At("polyplot_world")
    /\ \/ /\ surfaces' = Plot(surfaces, PolyplotWorldLayer)
          /\ io' = Append(io, [op |-> "write", path |-> "figure.png"])
          /\ Returns("polyplot_world")
       \/ /\ Raises("polyplot_world")
          /\ UNCHANGED <<surfaces, io>>
    /\ UNCHANGED <<imported, world, boroughs, collisions, africa, ax, nextId>>

PolyplotWorld ==
    /\ At("polyplot_world")
    /\ \/ /\ surfaces' = Plot(surfaces, PolyplotWorldLayer)
          /\ Returns("polyplot_world")
       \/ /\ Raises("polyplot_world")
          /\ UNCHANGED surfaces
    /\ UNCHANGED <<imported, world, boroughs, collisions, africa, ax, io, nextId>>

(* Line 37: ax = gplt.polyplot(world, projection=gcrs.Orthographic(), ...) *)

PolyplotOrthoLayer ==
    Layer("L37.polyplot", "polyplot", world, "Orthographic", 0,
          [figsize |-> <<8, 4>>])

PolyplotOrtho ==
    /\ At("polyplot_ortho")
    /\ \/ /\ surfaces' = Plot(surfaces, PolyplotOrthoLayer)
          /\ ax' = Returned(surfaces, PolyplotOrthoLayer)
          /\ Returns("polyplot_ortho")
       \/ /\ Raises("polyplot_ortho")
          /\ UNCHANGED <<surfaces, ax>>
    /\ UNCHANGED <<imported, world, boroughs, collisions, africa, io, nextId>>

(* Line 38: ax.outline_patch.set_visible(True)                              *)

SetOutline ==
    /\ At("set_outline")
    /\ \/ /\ surfaces' = [surfaces EXCEPT ![ax].outline = TRUE]
          /\ Returns("set_outline")
       \/ /\ Raises("set_outline")
          /\ UNCHANGED surfaces
    /\ UNCHANGED <<imported, world, boroughs, collisions, africa, ax, io, nextId>>

-----------------------------------------------------------------------------
(* Lines 45-48: the choropleth, coloured by gdp_md_est / pop_est.          *)

RECURSIVE GCD(_, _)
GCD(a, b) == IF b = 0 THEN a ELSE GCD(b, a % b)

\* true division of two non-negative numbers as pandas computes it on
\* floats: x/0 is inf, 0/0 is nan, otherwise the quotient (in lowest terms)
Truediv(g, p) ==
    IF p = 0
    THEN [kind |-> IF g = 0 THEN "nan" ELSE "inf", num |-> 0, den |-> 0]
    ELSE [kind |-> "num", num |-> g \div GCD(g, p), den |-> p \div GCD(g, p)]

\* world['gdp_md_est'] / world['pop_est']: a new Series, one value per row
Hue(df, id) ==
    [id |-> id,
     vals |-> [i \in 1..Len(df.rows) |->
                  Truediv(df.rows[i].gdp_md_est, df.rows[i].pop_est)]]

\* the two column Series take nextId and nextId + 1, the quotient nextId + 2
\* (nextId is not advanced for objects made by a statement that then raises:
\* the run ends there and creates nothing further)
ChoroplethLayerNoBuckets ==
    Layer("L45.choropleth", "choropleth", world, "none", 0,
          [hue |-> Hue(world, nextId + 2), cmap |-> "Greens", k |-> 0,
           figsize |-> <<8, 4>>])

ChoroplethLayer ==
    Layer("L45.choropleth", "choropleth", world, "none", 0,
          [hue |-> Hue(world, nextId + 2), cmap |-> "Greens",
           figsize |-> <<8, 4>>])

Choropleth ==
    /\ At("choropleth")
    /\ \/ /\ surfaces' = Plot(surfaces, ChoroplethLayer)
          /\ nextId' = nextId + 3
          /\ Returns("choropleth")
       \/ /\ Raises("choropleth")
          /\ UNCHANGED <<surfaces, nextId>>
    /\ UNCHANGED <<imported, world, boroughs, collisions, africa, ax, io>>

-----------------------------------------------------------------------------
(* Lines 54-59: the Africa view, its cartogram and the outline over it.    *)

QueryOthers(rows, continent) == SelectSeq(rows, LAMBDA r : r.continent # continent)

\* DataFrame.query('continent == "..."'): the matching rows, in order
Query(rows, continent) == SelectSeq(rows, LAMBDA r : r.continent = continent)

\* query(..., inplace=True): the dataset itself is filtered
QueryAfricaInplace ==
    /\ At("query_africa")
    /\ \/ /\ world' = [world EXCEPT !.rows = Query(world.rows, "Africa")]
          /\ africa' = world'
          /\ Returns("query_africa")
       \/ /\ Raises("query_africa")
          /\ UNCHANGED <<africa, world>>
    /\ UNCHANGED <<imported, boroughs, collisions, ax, surfaces, io, nextId>>

QueryAfrica ==
    /\ At("query_africa")
    /\ \/ /\ africa' = [id |-> nextId, rows |-> Query(world.rows, "Africa")]
          /\ nextId' = nextId + 1
          /\ Returns("query_africa")
       \/ /\ Raises("query_africa")
          /\ UNCHANGED <<africa, nextId>>
    /\ UNCHANGED <<imported, world, boroughs, collisions, ax, surfaces, io>>

\* limits=(0.2, 1) is held in tenths
CartogramLayer ==
    Layer("L55.cartogram", "cartogram", africa, "none", 0,
          [scale |-> "pop_est", limits |-> <<2, 10>>, edgecolor |-> "None",
           figsize |-> <<7, 8>>])

Cartogram ==
    /\ At("cartogram")
    /\ \/ /\ surfaces' = Plot(surfaces, CartogramLayer)
          /\ ax' = Returned(surfaces, CartogramLayer)
          /\ Returns("cartogram")
       \/ /\ Raises("cartogram")
          /\ UNCHANGED <<surfaces, ax>>
    /\ UNCHANGED <<imported, world, boroughs, collisions, africa, io, nextId>>

\* An overlay that raises may or may not have drawn onto the surface it was
\* given before raising: the source does not say, so both are allowed.
Overlay(stmt, layer) ==
    /\ \/ /\ surfaces' = Plot(surfaces, layer)
          /\ Returns(stmt)
       \/ /\ Raises(stmt)
          /\ \/ surfaces' = Plot(surfaces, layer)
             \/ UNCHANGED surfaces
    /\ UNCHANGED <<imported, world, boroughs, collisions, africa, ax, io, nextId>>

OverlayAfricaLayer ==
    Layer("L59.polyplot", "polyplot", africa, "none", ax, [edgecolor |-> "gray"])

OverlayAfrica ==
    /\ At("overlay_africa")
    /\ Overlay("overlay_africa", OverlayAfricaLayer)

-----------------------------------------------------------------------------
(* Lines 65-69: the kernel density plot of Collisions and its outline.     *)

\* boroughs.geometry: the geometry column as a series
Geometry(df, id) == [id |-> id, geoms |-> df.rows]

KdePlotLayer ==
    Layer("L65.kdeplot", "kdeplot", collisions, "AlbersEqualArea", 0,
          [clip |-> Geometry(boroughs, nextId), shade |-> TRUE, cmap |-> "Reds"])

\* the same call with its result dropped instead of bound to ax
KdePlotUnbound ==
    /\ At("kdeplot")
    /\ \/ /\ surfaces' = Plot(surfaces, KdePlotLayer)
          /\ ax' = ax
          /\ nextId' = nextId + 1
          /\ Returns("kdeplot")
       \/ /\ Raises("kdeplot")
          /\ UNCHANGED <<surfaces, ax, nextId>>
    /\ UNCHANGED <<imported, world, boroughs, collisions, africa, io>>

KdePlot ==
    /\ At("kdeplot")
    /\ \/ /\ surfaces' = Plot(surfaces, KdePlotLayer)
          /\ ax' = Returned(surfaces, KdePlotLayer)
          /\ nextId' = nextId + 1
          /\ Returns("kdeplot")
       \/ /\ Raises("kdeplot")
          /\ UNCHANGED <<surfaces, ax, nextId>>
    /\ UNCHANGED <<imported, world, boroughs, collisions, africa, io>>

OverlayKdeLayer ==
    Layer("L69.polyplot", "polyplot", boroughs, "none", ax, [zorder |-> 1])

OverlayKde ==
    /\ At("overlay_kde")
    /\ Overlay("overlay_kde", OverlayKdeLayer)

-----------------------------------------------------------------------------
(* Lines 76-83: the Voronoi tessellation and its outline.                  *)

Min(a, b) == IF a < b THEN a ELSE b
Max(a, b) == IF a > b THEN a ELSE b

\* collisions.head(n): a new frame holding the first n rows
HeadOf(df, n, id) == [id |-> id, nrows |-> Min(df.nrows, n)]

\* boroughs.simplify(tol): a new series, each geometry simplified to tol
Simplify(df, tol, id) ==
    [id |-> id,
     geoms |-> [i \in 1..Len(df.rows) |->
                   [geom |-> df.rows[i].geom, tol |-> Max(df.rows[i].tol, tol)]]]

VoronoiLayerUnprojected ==
    Layer("L76.voronoi", "voronoi", HeadOf(collisions, HeadRows, nextId),
          "none", 0,
          [clip |-> Simplify(boroughs, SimplifyTol, nextId + 1),
           hue |-> "NUMBER OF PERSONS INJURED", cmap |-> "Reds", k |-> 0,
           legend |-> TRUE, edgecolor |-> "white"])

VoronoiLayer ==
    Layer("L76.voronoi", "voronoi", HeadOf(collisions, HeadRows, nextId),
          "AlbersEqualArea", 0,
          [clip |-> Simplify(boroughs, SimplifyTol, nextId + 1),
           hue |-> "NUMBER OF PERSONS INJURED", cmap |-> "Reds", k |-> 0,
           legend |-> TRUE, edgecolor |-> "white"])

Voronoi ==
    /\ At("voronoi")
    /\ \/ /\ surfaces' = Plot(surfaces, VoronoiLayer)
          /\ ax' = Returned(surfaces, VoronoiLayer)
          /\ nextId' = nextId + 2
          /\ Returns("voronoi")
       \/ /\ Raises("voronoi")
          /\ UNCHANGED <<surfaces, ax, nextId>>
    /\ UNCHANGED <<imported, world, boroughs, collisions, africa, io>>

\* the same outline called without ax=ax
OverlayVoronoiLayerNoAx ==
    Layer("L83.polyplot", "polyplot", boroughs, "none", 0,
          [edgecolor |-> "black", zorder |-> 1])

OverlayVoronoiLayer ==
    Layer("L83.polyplot", "polyplot", boroughs, "none", ax,
          [edgecolor |-> "black", zorder |-> 1])

OverlayVoronoi ==
    /\ At("overlay_voronoi")
    /\ Overlay("overlay_voronoi", OverlayVoronoiLayer)

-----------------------------------------------------------------------------
Next ==
    \/ ImportGpd
    \/ ImportGplt
    \/ LoadWorld
    \/ LoadBoroughs
    \/ LoadCollisions
    \/ PolyplotWorld
    \/ ImportGcrs
    \/ PolyplotOrtho
    \/ SetOutline
    \/ Choropleth
    \/ QueryAfrica
    \/ Cartogram
    \/ OverlayAfrica
    \/ KdePlot
    \/ OverlayKde
    \/ Voronoi
    \/ OverlayVoronoi

Spec == Init /\ [][Next]_vars

\* every external call returns or raises: a statement that can run, runs
LiveSpec == Spec /\ WF_vars(Next)

-----------------------------------------------------------------------------
(* Vocabulary of the properties.                                           *)

BasePlotCalls ==
    {"L29.polyplot", "L37.polyplot", "L45.choropleth", "L55.cartogram",
     "L65.kdeplot", "L76.voronoi"}
OverlayCalls == {"L59.polyplot", "L69.polyplot", "L83.polyplot"}
ReadCalls == {"L20.read_file", "L21.read_file", "L22.read_file"}
ViewCalls == {"L46.truediv", "L54.query", "L66.geometry", "L77.head", "L78.simplify"}

Positions(call) == {i \in DOMAIN calls : calls[i] = call}
Started(call) == Positions(call) # {}
\* the call was started and did not raise
Completed(call) == Started(call) /\ raised.at # call

LayersOf(i) == {surfaces[i].layers[j] : j \in DOMAIN surfaces[i].layers}
Layers == UNION {LayersOf(i) : i \in DOMAIN surfaces}
LayersBy(call) == {l \in Layers : l.call = call}

-----------------------------------------------------------------------------
DatasetIds == {d.id : d \in {x \in {world, boroughs, collisions} : IsBound(x)}}

DerivedIds ==
    {v.id : v \in {x \in {africa} : IsBound(x)}}
      \cup {l.args.hue.id : l \in LayersBy("L45.choropleth")}
      \cup {l.data.id : l \in LayersBy("L76.voronoi")}
      \cup {l.args.clip.id : l \in LayersBy("L76.voronoi")}

DatasetsKept ==
    /\ IsBound(world) => world' = world
    /\ IsBound(boroughs) => boroughs' = boroughs
    /\ IsBound(collisions) => collisions' = collisions

\* C1: once a dataset is loaded no later step changes it, and each derived
\* view (the hue series, the Africa view, the head(1000) subset and the
\* simplified clip) is a new value, distinct from the three datasets.
C1_DatasetsReadOnly ==
    /\ [][DatasetsKept]_vars
    /\ [](DerivedIds \cap DatasetIds = {} /\ 0 \notin DerivedIds)

\* the run ended after a filter that dropped a record, a head() that cut rows
\* and a simplify() of at least one borough
C1_Witness ==
    /\ status = "done"
    /\ Len(africa.rows) < Len(world.rows)
    /\ collisions.nrows > HeadRows
    /\ boroughs.rows # << >>
    /\ Cardinality(DerivedIds) = 4

-----------------------------------------------------------------------------
AbortedAtFailingCall ==
    /\ (status = "aborted") <=> (raised # NoError)
    /\ uncaught = raised
    /\ raised # NoError =>
          /\ calls # << >>
          /\ calls[Len(calls)] = raised.at
          /\ Cardinality(Positions(raised.at)) = 1
          /\ raised.kind \in Errors

\* C2: when an external call raises, the run ends at that call with that
\* error: nothing runs afterwards, the call is the last one started and was
\* started once, and the error the run ends with is the error raised.
C2_ErrorPropagates ==
    /\ [][raised # NoError => UNCHANGED vars]_vars
    /\ []AbortedAtFailingCall

\* simplify() raised inside the voronoi statement: head() had run, the
\* voronoi call itself was never started
C2_Witness ==
    /\ status = "aborted"
    /\ raised.at = "L78.simplify"
    /\ Started("L77.head")
    /\ ~Started("L76.voronoi")

-----------------------------------------------------------------------------
BaseOf(call) ==
    CASE call = "L59.polyplot" -> "L55.cartogram"
      [] call = "L69.polyplot" -> "L65.kdeplot"
      [] call = "L83.polyplot" -> "L76.voronoi"

\* C3: an overlay is drawn onto the surface of the base call just before it
\* (Africa outline on the cartogram, first boroughs outline on the kdeplot,
\* second on the voronoi), after the base layer, and on no other surface.
C3_OverlayOnPreviousSurface ==
    /\ \A i \in DOMAIN surfaces :
          /\ surfaces[i].layers[1].call \in BasePlotCalls
          /\ \A j \in 2..Len(surfaces[i].layers) :
                /\ surfaces[i].layers[j].call \in OverlayCalls
                /\ surfaces[i].layers[1].call = BaseOf(surfaces[i].layers[j].call)
                /\ surfaces[i].layers[j].axArg = i
    /\ \A c \in OverlayCalls :
          Completed(c) =>
             \E i \in DOMAIN surfaces :
                /\ Len(surfaces[i].layers) = 2
                /\ surfaces[i].layers[2].call = c
                /\ Positions(surfaces[i].layers[1].call)
                      = {p - 1 : p \in Positions(c)}

\* all three overlays have been drawn
C3_Witness ==
    /\ \A c \in OverlayCalls : Completed(c)
    /\ \A c \in OverlayCalls : LayersBy(c) # {}

-----------------------------------------------------------------------------
CallsInSourceOrder ==
    /\ Len(calls) <= Len(AllCalls)
    /\ calls = SubSeq(AllCalls, 1, Len(calls))
    /\ \A c \in {calls[i] : i \in DOMAIN calls} : Cardinality(Positions(c)) = 1
    /\ status = "done" => calls = AllCalls /\ pc = Len(Script) + 1

\* C4: when no call raises (and every call returns), the run reaches the end
\* of the script, and at the end every call has been made exactly once, in
\* source order; at any point the calls made are a prefix of that order.
\* "[](nothing raised) => <>(done)" is written "<>(raised or done)".
C4_RunsToCompletion ==
    /\ <>(raised # NoError \/ status = "done")
    /\ []CallsInSourceOrder

\* the run reached the end with all 29 calls made and nothing raised
C4_Witness ==
    /\ status = "done"
    /\ raised = NoError
    /\ Len(calls) = 29

-----------------------------------------------------------------------------
\* C5: the only file operations are the reads of the three bundled
\* datasets, each at most once: nothing is ever written or saved.
C5_NoWrites ==
    /\ \A i \in DOMAIN io :
          /\ io[i].op = "read"
          /\ io[i].path \in {"naturalearth_lowres", "nyc_boroughs",
                             "nyc_injurious_collisions"}
    /\ \A i, j \in DOMAIN io : io[i].path = io[j].path => i = j

\* the run ended with six surfaces drawn and three reads behind it
C5_Witness ==
    /\ status = "done"
    /\ Len(io) = 3
    /\ Len(surfaces) = 6

-----------------------------------------------------------------------------
IsQuotient(v, g, p) ==
    IF p = 0
    THEN v.kind = (IF g = 0 THEN "nan" ELSE "inf")
    ELSE v.kind = "num" /\ v.den > 0 /\ v.num * p = g * v.den

-----------------------------------------------------------------------------
\* C7: each dataset is read once; the three reads come before the first
\* plotting call; every plotting call and derived view is given a dataset
\* (or a view of one) that has been loaded.
C7_LoadedBeforeUse ==
    /\ \A c \in ReadCalls : Cardinality(Positions(c)) <= 1
    /\ \A i \in DOMAIN calls :
          calls[i] \in BasePlotCalls \cup OverlayCalls \cup ViewCalls =>
             \A c \in ReadCalls : \E j \in 1..(i - 1) : calls[j] = c
    /\ surfaces # << >> =>
          IsBound(world) /\ IsBound(boroughs) /\ IsBound(collisions)
    /\ \A l \in Layers : IsBound(l.data)
    /\ IsBound(africa) => IsBound(world)

\* the first plot has been made and all three datasets hold records
C7_Witness ==
    /\ Len(surfaces) = 1
    /\ world.rows # << >>
    /\ boroughs.rows # << >>
    /\ collisions.nrows > 0

-----------------------------------------------------------------------------
AfricaIdx == {i \in DOMAIN world.rows : world.rows[i].continent = "Africa"}
Nth(S, j) == CHOOSE i \in S : Cardinality({m \in S : m <= i}) = j

\* C8: the Africa view holds exactly the World records labelled "Africa",
\* in order, and the cartogram (scaled by pop_est) and the outline over it
\* are both given that view.
C8_AfricaView ==
    /\ IsBound(africa) =>
          /\ Len(africa.rows) = Cardinality(AfricaIdx)
          /\ \A j \in DOMAIN africa.rows :
                africa.rows[j] = world.rows[Nth(AfricaIdx, j)]
    /\ \A l \in LayersBy("L55.cartogram") :
          l.data = africa /\ l.args.scale = "pop_est"
    /\ \A l \in LayersBy("L59.polyplot") : l.data = africa

\* cartogram and outline drawn for a World with an African and another record
C8_Witness ==
    /\ LayersBy("L55.cartogram") # {}
    /\ LayersBy("L59.polyplot") # {}
    /\ africa.rows # << >>
    /\ \E i \in DOMAIN world.rows : world.rows[i].continent # "Africa"

-----------------------------------------------------------------------------
ReturnedBaseCalls == {i \in DOMAIN calls : calls[i] \in BasePlotCalls /\ raised.at # calls[i]}

\* C9: there is one surface per base plotting call that returned, six at
\* the end; overlays create none; at the end the first three surfaces hold
\* one layer and the last three two (base, then outline).
C9_SixSurfaces ==
    /\ Len(surfaces) = Cardinality(ReturnedBaseCalls)
    /\ Len(surfaces) <= 6
    /\ \A i \in DOMAIN surfaces : Len(surfaces[i].layers) \in {1, 2}
    /\ status = "done" =>
          /\ Len(surfaces) = 6
          /\ [i \in 1..6 |-> Len(surfaces[i].layers)] = <<1, 1, 1, 2, 2, 2>>
          /\ [i \in 1..6 |-> surfaces[i].layers[1].fn]
                = <<"polyplot", "polyplot", "choropleth", "cartogram",
                    "kdeplot", "voronoi">>
          /\ \A i \in 4..6 : surfaces[i].layers[2].fn = "polyplot"

\* the run ended: the sixth surface holds the voronoi and its outline
C9_Witness ==
    /\ status = "done"
    /\ Len(surfaces) = 6
    /\ Len(surfaces[6].layers) = 2

-----------------------------------------------------------------------------
SurfaceProjections ==
    <<"none", "Orthographic", "none", "none", "AlbersEqualArea", "AlbersEqualArea">>

ProjectionsAsCreated ==
    /\ \A i \in DOMAIN surfaces :
          /\ surfaces[i].projection = SurfaceProjections[i]
          /\ surfaces[i].projection = surfaces[i].layers[1].projection
          /\ \A j \in 2..Len(surfaces[i].layers) :
                surfaces[i].layers[j].projection = "none"

\* C10: a surface keeps the projection of the base call that created it:
\* only the second surface is orthographic, the kdeplot and voronoi surfaces
\* are Albers equal-area, the others unprojected; no overlay passes one.
C10_ProjectionFixed ==
    /\ [][\A i \in DOMAIN surfaces :
             /\ i \in DOMAIN surfaces'
             /\ surfaces'[i].projection = surfaces[i].projection]_vars
    /\ []ProjectionsAsCreated

\* both boroughs outlines drawn, each on an Albers equal-area surface
C10_Witness ==
    /\ Len(surfaces) = 6
    /\ \A i \in {5, 6} :
          /\ Len(surfaces[i].layers) = 2
          /\ surfaces[i].projection = "AlbersEqualArea"

====
